---- MODULE Spec2Model ----
(***************************************************************************)
(* Model of Code/backend/app.py: the camera session controller             *)
(* (start_camera / stop_camera under cam_lock), the capture worker thread  *)
(* (camera_worker), the stress estimator (compute_stress_from_frame and    *)
(* what it calls) and the two polling streams (stream_sse, video_stream).  *)
(*                                                                         *)
(* Conventions                                                             *)
(*  - Python None is the empty sequence <<>>, a present value x is <<x>>.  *)
(*  - Floats in [0,1] are fixed-point integers, SCALE units to 1.0.        *)
(*  - A VideoCapture object is the number of the successful Start that     *)
(*    opened it; the worker thread that Start spawns has the same number.  *)
(*  - A frame is what the external providers report about it (detections,  *)
(*    raw facial metrics, classifier output): their algorithms are outside *)
(*    the program.                                                         *)
(***************************************************************************)
EXTENDS Integers, Sequences, FiniteSets

\* ------------------------------------------------------------------ bounds

\* Successful Starts (VideoCapture objects opened, worker threads spawned).
MaxSessions == 2
\* Frames with a face the camera shows while the landmark models are in use,
\* in the controller specification (frames without a face are not counted).
MaxFaceFrames == 1
\* The same in the streaming specification.
MaxStreamFaces == 1
\* Successful Starts in the streaming specification.
MaxStreamSessions == 1
\* Frames fed to the estimator in the estimator-only specification.
MaxEstFrames == 5
\* Successful Starts, and frames with a face, in the restart specification.
MaxRestartSessions == 2
MaxRestartFaces == 2
\* Successful Starts, and frames with a face, in the model-loading
\* specification.
MaxLoadSessions == 1
MaxLoadFaces == 1
\* Calls of _normalize_points in the normalizer specification.
MaxNormCalls == 3

\* -------------------------------------------------------------- constants

_HISTORY_MAX_PER_FEATURE == 300
FRAME_COUNT_WRAP == 1000000
EMOTION_EVERY == 5
MIN_SAMPLES == 5
MAX_WIDTH == 800

\* Fixed-point unit: SCALE stands for 1.0.
SCALE == 10 * 100
_EMA_ALPHA == (3 * SCALE) \div 10
HIGH_LEVEL == (75 * SCALE) \div 100
OVERRIDE_LEVEL == (75 * SCALE) \div 100
MODERATE_LEVEL == (35 * SCALE) \div 100
HALF == SCALE \div 2

None == <<>>
Some(x) == <<x>>
IsNone(o) == o = <<>>
Val(o) == o[1]

Max(a, b) == IF a >= b THEN a ELSE b
Min(a, b) == IF a <= b THEN a ELSE b
Abs(a) == IF a < 0 THEN 0 - a ELSE a

Requests == {1, 2}
Sessions == 1..MaxSessions
Indices == {0, 1}
Features == {"eyebrow", "eyes", "mouth", "chin"}
EMOTIONS == <<"angry", "disgust", "scared", "happy", "sad", "surprised", "neutral">>

VARIABLES
    cap,            \* None or the open/released VideoCapture held by the session
    running,        \* the worker loop's flag
    cam_index,      \* device index of the last successful Start
    cam_lock,       \* 0 when free, else the request thread holding it
    opened,         \* number of VideoCapture objects opened so far
    released,       \* the VideoCapture objects release() was called on
    rpc,            \* per request thread: position in its handler
    ridx,           \* per request thread: the parsed index of a Start
    resp,           \* the response a handler returned in the last step, else None
    wpc,            \* per worker thread: position in camera_worker
    wframe,         \* per worker thread: its local frame (None outside an iteration)
    frame_seq,      \* frames fed, or normalizer calls made, so far in the
                    \* specifications that drive the estimator directly
    latest_summary, \* shared Summary
    latest_frame,   \* shared annotated frame, None until the first publish
    dlib_ready,     \* _dlib_ready
    detector,       \* _detector is not None
    hist,           \* _feature_histories, a sequence per feature key
    ema_level,      \* _ema_level, None until seeded
    frame_count,    \* _frame_count
    last_emotion,   \* _last_emotion_label
    last_face,      \* detection cache: None or the seq of the frame it came from
    sse_last,       \* the SSE generator's local `last`
    sse_out,        \* the last two payloads the SSE generator yielded
    video_out,      \* the last part the video generator yielded (None: none yet)
    norm_ret,       \* arguments and return of the _normalize_points call a step of the
                    \* normalizer specification made, else None
    loading         \* the request threads inside _ensure_models_loaded's try block

session_vars == <<cap, running, cam_index, cam_lock, opened, released>>
request_vars == <<rpc, ridx>>
worker_vars == <<wpc, wframe, frame_seq>>
shared_vars == <<latest_summary, latest_frame>>
model_vars == <<dlib_ready, detector>>
smoothing_vars == <<hist, ema_level, frame_count, last_emotion, last_face>>
stream_vars == <<sse_last, sse_out, video_out>>
call_vars == <<norm_ret, loading>>
vars == <<session_vars, request_vars, resp, worker_vars, shared_vars, model_vars,
          smoothing_vars, stream_vars, call_vars>>

\* ------------------------------------------------------------------ frames

\* What the providers report about one frame.  seq: the frame's number where
\* the specification numbers its frames, else 0; faces: landmark-provider
\* detections; haar_faces: Haar-cascade detections; eb_ok: both eyebrow
\* slices non-empty; eb_norm, ear_l, ear_r, mar, chin_dist: the raw ratios
\* computed from the landmarks (fixed point); roi_empty: the face crop has
\* no pixels; emotion: the classifier's argmax label, or "error" when
\* resize/predict raises; hnorm: density * (w / scale) * 0.5 of the Haar path.
NoFace ==
    [seq |-> 0, width |-> 640, faces |-> 0, haar_faces |-> 0, eb_ok |-> TRUE,
     eb_norm |-> 0, ear_l |-> 0, ear_r |-> 0, mar |-> 0, chin_dist |-> 0,
     roi_empty |-> TRUE, emotion |-> "error", hnorm |-> 0]
Calm ==
    [seq |-> 0, width |-> 640, faces |-> 1, haar_faces |-> 1, eb_ok |-> TRUE,
     eb_norm |-> 300, ear_l |-> 300, ear_r |-> 320, mar |-> 400, chin_dist |-> 350,
     roi_empty |-> FALSE, emotion |-> "neutral", hnorm |-> 500]
Tense ==
    [seq |-> 0, width |-> 1280, faces |-> 1, haar_faces |-> 2, eb_ok |-> TRUE,
     eb_norm |-> 500, ear_l |-> 450, ear_r |-> 400, mar |-> 200, chin_dist |-> 250,
     roi_empty |-> FALSE, emotion |-> "neutral", hnorm |-> 1050]
Sad ==
    [seq |-> 0, width |-> 1280, faces |-> 2, haar_faces |-> 1, eb_ok |-> TRUE,
     eb_norm |-> 200, ear_l |-> 200, ear_r |-> 250, mar |-> 1200, chin_dist |-> 500,
     roi_empty |-> FALSE, emotion |-> "sad", hnorm |-> 4000]
Glitch ==
    [seq |-> 0, width |-> 640, faces |-> 1, haar_faces |-> 0, eb_ok |-> TRUE,
     eb_norm |-> 1100, ear_l |-> 300, ear_r |-> 300, mar |-> 400, chin_dist |-> 300,
     roi_empty |-> FALSE, emotion |-> "error", hnorm |-> 0]
Cropped ==
    [seq |-> 0, width |-> 640, faces |-> 1, haar_faces |-> 1, eb_ok |-> FALSE,
     eb_norm |-> 0, ear_l |-> 300, ear_r |-> 300, mar |-> 400, chin_dist |-> 300,
     roi_empty |-> TRUE, emotion |-> "happy", hnorm |-> 20]
Scared ==
    [seq |-> 0, width |-> 640, faces |-> 1, haar_faces |-> 1, eb_ok |-> TRUE,
     eb_norm |-> 150, ear_l |-> 500, ear_r |-> 480, mar |-> 900, chin_dist |-> 450,
     roi_empty |-> FALSE, emotion |-> "scared", hnorm |-> 300]
\* A face whose box lies outside the image: the crop of line 276 has no pixels.
EmptyCrop ==
    [seq |-> 0, width |-> 640, faces |-> 1, haar_faces |-> 0, eb_ok |-> TRUE,
     eb_norm |-> 300, ear_l |-> 300, ear_r |-> 320, mar |-> 400, chin_dist |-> 350,
     roi_empty |-> TRUE, emotion |-> "happy", hnorm |-> 0]

\* Frames the camera can deliver in the controller specification.
CamFrames == {NoFace, Sad}
\* Frames the camera can deliver in the streaming specification.
StreamFrames == {NoFace, Calm, Sad}
\* Frames the camera can deliver in the restart specification.
RestartFrames == {NoFace, Glitch, Sad}
\* Frames fed to the estimator in the estimator-only specification.
EstFrames == {NoFace, Calm, Tense, Sad, Glitch, Cropped, Scared, EmptyCrop}

\* Outcome of the one model-loading attempt.  A load that raises after the
\* detector was built leaves _detector set, which nothing can observe once
\* _dlib_ready is False, so it is not told apart from any other failure.
LoadOutcomes == {"ok", "fail"}

\* --------------------------------------------------------- pure functions

Clamp01(x) == Max(0, Min(SCALE, x))

\* Mutant of level_to_label: strict comparisons at both thresholds.
level_to_label_Strict(level) ==
    IF level > HIGH_LEVEL THEN "High"
    ELSE IF level > MODERATE_LEVEL THEN "Moderate"
    ELSE "Low"

level_to_label(level) ==
    IF level >= HIGH_LEVEL THEN "High"
    ELSE IF level >= MODERATE_LEVEL THEN "Moderate"
    ELSE "Low"

ZeroSummary(n) == [level |-> 0, label |-> "Low", faces |-> n]

\* e^(x/SCALE) * SCALE by a 12-term Taylor series in Horner form.
RECURSIVE ExpSeries(_, _)
ExpSeries(x, k) ==
    IF k > 12 THEN SCALE
    ELSE SCALE + (x * ExpSeries(x, k + 1)) \div (k * SCALE)

\* math.exp(-norm)
ExpNeg(x) == (SCALE * SCALE) \div ExpSeries(x, 1)

\* np.tanh on [0, 1]: the Pade approximant x(15 + x^2) / (15 + 6x^2).
Tanh(x) ==
    LET x2 == (x * x) \div SCALE
    IN (x * (15 * SCALE + x2)) \div (15 * SCALE + 6 * x2)

SeqMax(h) == CHOOSE m \in {h[i] : i \in 1..Len(h)} : \A i \in 1..Len(h) : h[i] <= m
SeqMin(h) == CHOOSE m \in {h[i] : i \in 1..Len(h)} : \A i \in 1..Len(h) : m <= h[i]

\* Mutant of Appended: the slice keeps the head of the list, history[:300].
Appended_KeepsOldest(h, value) ==
    LET a == Append(h, value)
    IN IF Len(a) > _HISTORY_MAX_PER_FEATURE
       THEN SubSeq(a, 1, _HISTORY_MAX_PER_FEATURE)
       ELSE a

\* _normalize_points, lines 147-151: the history after the append.
Appended(h, value) ==
    LET a == Append(h, value)
    IN IF Len(a) > _HISTORY_MAX_PER_FEATURE
       THEN SubSeq(a, Len(a) - _HISTORY_MAX_PER_FEATURE + 1, Len(a))
       ELSE a

\* Mutant of Normalized: the degenerate-range test of line 153 is left out.
Normalized_NoRangeTest(h, value) ==
    IF Len(h) < MIN_SAMPLES
    THEN [level |-> HALF, label |-> "initializing"]
    ELSE LET vmin == SeqMin(h)
             vmax == SeqMax(h)
             normalized_value == (Abs(value - vmin) * SCALE) \div Max(Abs(vmax - vmin), 1)
             stress_value == Clamp01(Tanh(normalized_value))
         IN [level |-> stress_value,
             label |-> IF stress_value >= HIGH_LEVEL THEN "High"
                       ELSE IF stress_value >= MODERATE_LEVEL THEN "Moderate"
                       ELSE "Low"]

\* _normalize_points, lines 153-164, on the history after the append.  In
\* fixed point the 1e-6 floor is one unit and a NaN cannot arise.
Normalized(h, value) ==
    IF Len(h) < MIN_SAMPLES \/ SeqMax(h) = SeqMin(h)
    THEN [level |-> HALF, label |-> "initializing"]
    ELSE LET vmin == SeqMin(h)
             vmax == SeqMax(h)
             normalized_value == (Abs(value - vmin) * SCALE) \div Max(Abs(vmax - vmin), 1)
             stress_value == Clamp01(Tanh(normalized_value))
         IN [level |-> stress_value,
             label |-> IF stress_value >= HIGH_LEVEL THEN "High"
                       ELSE IF stress_value >= MODERATE_LEVEL THEN "Moderate"
                       ELSE "Low"]

\* One call of _normalize_points: the feature's history is replaced by the
\* appended one and the call returns the pair computed on it.
normalize_points(value, feature_key) ==
    /\ hist' = [hist EXCEPT ![feature_key] = Appended(@, value)]
    /\ norm_ret' = Some([key |-> feature_key, value |-> value,
                         ret |-> Normalized(Appended(hist[feature_key], value), value)])

\* The four clamped raw metrics of a frame (lines 209-210, 232, 257, 267).
Metric(f, key) ==
    CASE key = "eyebrow" -> Clamp01(SCALE - f.eb_norm)
      [] key = "eyes" -> Clamp01(SCALE - Min(f.ear_l, f.ear_r))
      [] key = "mouth" -> Clamp01(f.mar)
      [] key = "chin" -> Clamp01(f.chin_dist)

\* Line 271.
Fuse(l_eb, l_eye, l_mouth, l_chin) ==
    (35 * l_eb + 30 * l_eye + 25 * l_mouth + 10 * l_chin) \div 100

\* Mutant of EmotionAdjust: a stressed label sets the level to 0.75.
EmotionAdjust_Sets(level_fused, emotion_label) ==
    IF emotion_label \in {"scared", "sad"}
    THEN OVERRIDE_LEVEL
    ELSE level_fused

\* Lines 297-299.
EmotionAdjust(level_fused, emotion_label) ==
    IF emotion_label \in {"scared", "sad"}
    THEN Max(level_fused, OVERRIDE_LEVEL)
    ELSE level_fused

\* Mutant of Smooth: the two weights are swapped.
Smooth_Swapped(prev, level_fused) ==
    IF IsNone(prev) THEN level_fused
    ELSE ((SCALE - _EMA_ALPHA) * level_fused + _EMA_ALPHA * Val(prev)) \div SCALE

\* Lines 303-306.
Smooth(prev, level_fused) ==
    IF IsNone(prev) THEN level_fused
    ELSE (_EMA_ALPHA * level_fused + (SCALE - _EMA_ALPHA) * Val(prev)) \div SCALE

\* Lines 131-134.
HeuristicLevel(hnorm) ==
    LET norm == Min(Max(hnorm, 0), 3 * SCALE)
    IN Max(0, Min(SCALE, ExpNeg(norm)))

\* _heuristic_from_opencv.
HeuristicSummary(f) ==
    IF f.haar_faces = 0 THEN ZeroSummary(0)
    ELSE LET level == HeuristicLevel(f.hnorm)
         IN [level |-> level, label |-> level_to_label(level), faces |-> f.haar_faces]

\* -------------------------------------------------------------- estimator

\* _ensure_models_loaded: its result and the flags it leaves, given how the
\* load goes should this call be the one that attempts it.
EnsureModels(load) ==
    IF ~dlib_ready THEN [ok |-> FALSE, ready |-> FALSE, det |-> detector]
    ELSE IF detector THEN [ok |-> TRUE, ready |-> TRUE, det |-> TRUE]
    ELSE IF load = "ok" THEN [ok |-> TRUE, ready |-> TRUE, det |-> TRUE]
    ELSE [ok |-> FALSE, ready |-> FALSE, det |-> FALSE]

\* The histories after the four _normalize_points calls of one frame.
NewHist(f) == [k \in Features |-> Appended(hist[k], Metric(f, k))]

\* Lines 271: the fused level from the four normalized metrics.
FusedLevel(f) ==
    LET h == NewHist(f)
    IN Fuse(Normalized(h["eyebrow"], Metric(f, "eyebrow")).level,
            Normalized(h["eyes"], Metric(f, "eyes")).level,
            Normalized(h["mouth"], Metric(f, "mouth")).level,
            Normalized(h["chin"], Metric(f, "chin")).level)

\* Lines 280-281: the call counter after this frame.
NewFrameCount(f) ==
    IF f.roi_empty THEN frame_count ELSE (frame_count + 1) % FRAME_COUNT_WRAP

\* Mutant of ClassifierInvoked: no throttle, every frame with a crop is
\* classified.
ClassifierInvoked_EveryFrame(f) == ~f.roi_empty

\* Line 282: whether the classifier is invoked on this frame.
ClassifierInvoked(f) ==
    /\ ~f.roi_empty
    /\ (NewFrameCount(f) % EMOTION_EVERY = 0 \/ last_emotion = "unknown")

\* Lines 279-294: the sticky label after this frame, which is also the
\* emotion_label the adjustment uses.
NewEmotionLabel(f) ==
    IF ClassifierInvoked(f) /\ f.emotion # "error" THEN f.emotion ELSE last_emotion

\* Lines 296-306: the smoothed level after this frame.
NewEma(f) == Smooth(ema_level, EmotionAdjust(FusedLevel(f), NewEmotionLabel(f)))

\* Which return of compute_stress_from_frame a frame takes.
Path(f, load) ==
    IF ~EnsureModels(load).ok THEN "heuristic"
    ELSE IF f.faces = 0 THEN "noface"
    ELSE IF ~f.eb_ok THEN "noeyebrow"
    ELSE "accurate"

\* Mutant of AccurateSummary: the level is returned as the percentage the
\* overlay prints.
AccurateSummary_Percent(f) ==
    LET level == Max(0, Min(SCALE, NewEma(f))) * 100
    IN [level |-> level, label |-> level_to_label(level), faces |-> f.faces]

\* Lines 308-311.
AccurateSummary(f) ==
    LET level == Max(0, Min(SCALE, NewEma(f)))
    IN [level |-> level, label |-> level_to_label(level), faces |-> f.faces]

\* The Summary compute_stress_from_frame returns.
StressSummary(f, load) ==
    CASE Path(f, load) = "heuristic" -> HeuristicSummary(f)
      [] Path(f, load) = "noface" -> ZeroSummary(0)
      [] Path(f, load) = "noeyebrow" -> ZeroSummary(f.faces)
      [] Path(f, load) = "accurate" -> AccurateSummary(f)

\* Mutant of NoFaceEffect: a frame without a face restarts the smoothing.
NoFaceEffect_ResetsEma ==
    /\ ema_level' = None
    /\ UNCHANGED <<hist, frame_count, last_emotion, last_face>>

\* Lines 176-177: what the zero-detection return leaves of the smoothing
\* state, the emotion gate and the detection cache.
NoFaceEffect == UNCHANGED smoothing_vars

\* The globals compute_stress_from_frame leaves behind.
compute_stress_from_frame(f, load) ==
    /\ dlib_ready' = EnsureModels(load).ready
    /\ detector' = EnsureModels(load).det
    /\ IF Path(f, load) = "accurate"
       THEN /\ hist' = NewHist(f)
            /\ frame_count' = NewFrameCount(f)
            /\ last_emotion' = NewEmotionLabel(f)
            /\ ema_level' = Some(NewEma(f))
            /\ last_face' = Some(f.seq)
       ELSE IF Path(f, load) = "noeyebrow"
       THEN /\ last_face' = Some(f.seq)
            /\ UNCHANGED <<hist, ema_level, frame_count, last_emotion>>
       ELSE IF Path(f, load) = "noface"
       THEN NoFaceEffect
       ELSE UNCHANGED smoothing_vars

\* ------------------------------------------------------ session controller

\* A finished request and its response: the operation, the index the request
\* asked for (0 for a Stop), the status word, the HTTP code and the index the
\* response names (0 when it names none).  The model-availability fields of a
\* Start response are left out; the _ensure_models_loaded call that fills
\* them is not.
Response(op, arg, status, code, index) ==
    [op |-> op, arg |-> arg, status |-> status, code |-> code, index |-> index]

\* A handler's locals are gone once it returns.
Finished(r) ==
    /\ rpc' = [rpc EXCEPT ![r] = "idle"]
    /\ ridx' = [ridx EXCEPT ![r] = 0]

\* A client posts /api/start with a well-formed index, or with none (the
\* default is the current cam_index, read before the lock is taken).
BeginStart(r) ==
    /\ rpc[r] = "idle"
    /\ \E idx \in Indices :
         /\ rpc' = [rpc EXCEPT ![r] = "start_wait"]
         /\ ridx' = [ridx EXCEPT ![r] = idx]
    /\ resp' = None
    /\ UNCHANGED <<session_vars, worker_vars, shared_vars, model_vars,
                   smoothing_vars, stream_vars, call_vars>>

\* A client posts /api/start with an index int() rejects: the handler raises
\* before the lock and the framework answers 500.
StartBadIndex(r) ==
    /\ rpc[r] = "idle"
    /\ resp' = Some(Response("start", 0, "error", 500, 0))
    /\ UNCHANGED <<session_vars, rpc, ridx, worker_vars, shared_vars, model_vars,
                   smoothing_vars, stream_vars, call_vars>>

\* Mutant of SessionActive: a Start for another device index is let through.
SessionActive_SameIndex(r) == running /\ ridx[r] = cam_index

\* Line 419: the test Start makes under the lock.
SessionActive(r) == running

\* Lines 418-420: the lock is taken and the session is active.
StartAlreadyRunning(r) ==
    /\ rpc[r] = "start_wait"
    /\ cam_lock = 0
    /\ SessionActive(r)
    /\ \E load \in LoadOutcomes :
         /\ dlib_ready' = EnsureModels(load).ready
         /\ detector' = EnsureModels(load).det
    /\ resp' = Some(Response("start", ridx[r], "already_running", 200, cam_index))
    /\ Finished(r)
    /\ UNCHANGED <<session_vars, worker_vars, shared_vars, smoothing_vars,
                   stream_vars, call_vars>>

\* Mutant of StartOpenFail: the new VideoCapture is stored in the global before
\* isOpened() is tested (0 stands for the object that never opened).
StartOpenFail_KeepsCap(r) ==
    /\ rpc[r] = "start_wait"
    /\ cam_lock = 0
    /\ ~running
    /\ cap' = Some(0)
    /\ resp' = Some(Response("start", ridx[r], "error", 400, ridx[r]))
    /\ Finished(r)
    /\ UNCHANGED <<running, cam_index, cam_lock, opened, released, worker_vars,
                   shared_vars, model_vars, smoothing_vars, stream_vars, call_vars>>

\* Lines 421-423: the device does not open.
StartOpenFail(r) ==
    /\ rpc[r] = "start_wait"
    /\ cam_lock = 0
    /\ ~SessionActive(r)
    /\ resp' = Some(Response("start", ridx[r], "error", 400, ridx[r]))
    /\ Finished(r)
    /\ UNCHANGED <<session_vars, worker_vars, shared_vars, model_vars,
                   smoothing_vars, stream_vars, call_vars>>

\* Lines 421-422: the device opens (at most `limit` times); the handler keeps
\* the lock.
StartOpenOk(r, limit) ==
    /\ rpc[r] = "start_wait"
    /\ cam_lock = 0
    /\ ~SessionActive(r)
    /\ opened < limit
    /\ opened' = opened + 1
    /\ cam_lock' = r
    /\ rpc' = [rpc EXCEPT ![r] = "start_assign"]
    /\ resp' = None
    /\ UNCHANGED <<cap, running, cam_index, released, ridx, worker_vars,
                   shared_vars, model_vars, smoothing_vars, stream_vars, call_vars>>

\* Lines 424-425.
StartAssign(r) ==
    /\ rpc[r] = "start_assign"
    /\ cap' = Some(opened)
    /\ cam_index' = ridx[r]
    /\ rpc' = [rpc EXCEPT ![r] = "start_run"]
    /\ resp' = None
    /\ UNCHANGED <<running, cam_lock, opened, released, ridx, worker_vars,
                   shared_vars, model_vars, smoothing_vars, stream_vars, call_vars>>

\* Lines 426-428: the flag is set, the thread is started, the lock is dropped.
StartRun(r) ==
    /\ rpc[r] = "start_run"
    /\ running' = TRUE
    /\ wpc' = [wpc EXCEPT ![opened] = "while"]
    /\ cam_lock' = 0
    /\ rpc' = [rpc EXCEPT ![r] = "start_ret"]
    /\ resp' = None
    /\ UNCHANGED <<cap, cam_index, opened, released, ridx, wframe, frame_seq,
                   shared_vars, model_vars, smoothing_vars, stream_vars, call_vars>>

\* Line 429: the response is built outside the lock, the call of
\* _ensure_models_loaded in it taken as one step.
StartReturn(r) ==
    /\ rpc[r] = "start_ret"
    /\ r \notin loading
    /\ \E load \in LoadOutcomes :
         /\ dlib_ready' = EnsureModels(load).ready
         /\ detector' = EnsureModels(load).det
    /\ resp' = Some(Response("start", ridx[r], "started", 200, cam_index))
    /\ Finished(r)
    /\ UNCHANGED <<session_vars, worker_vars, shared_vars, smoothing_vars,
                   stream_vars, call_vars>>

\* Line 429, lines 83-87: the call of _ensure_models_loaded finds the
\* libraries imported and no detector yet, and enters the try block.  No lock
\* is held, so other threads run while the files are read.
StartReturnLoad(r) ==
    /\ rpc[r] = "start_ret"
    /\ r \notin loading
    /\ dlib_ready
    /\ ~detector
    /\ loading' = loading \cup {r}
    /\ resp' = None
    /\ UNCHANGED <<session_vars, request_vars, worker_vars, shared_vars, model_vars,
                   smoothing_vars, stream_vars, norm_ret>>

\* Lines 88-99, line 429: the load that thread began ends, by storing the
\* three models or by raising, and the response is returned.  A load that
\* raises leaves whatever detector is stored.
StartReturnLoaded(r) ==
    /\ rpc[r] = "start_ret"
    /\ r \in loading
    /\ \E load \in LoadOutcomes :
         IF load = "ok"
         THEN detector' = TRUE /\ dlib_ready' = dlib_ready
         ELSE detector' = detector /\ dlib_ready' = FALSE
    /\ loading' = loading \ {r}
    /\ resp' = Some(Response("start", ridx[r], "started", 200, cam_index))
    /\ Finished(r)
    /\ UNCHANGED <<session_vars, worker_vars, shared_vars, smoothing_vars,
                   stream_vars, norm_ret>>

\* A client posts /api/stop.
BeginStop(r) ==
    /\ rpc[r] = "idle"
    /\ rpc' = [rpc EXCEPT ![r] = "stop_wait"]
    /\ resp' = None
    /\ UNCHANGED <<session_vars, ridx, worker_vars, shared_vars, model_vars,
                   smoothing_vars, stream_vars, call_vars>>

\* Mutant of StopEnter: the flag is not cleared.
StopEnter_KeepsRunning(r) ==
    /\ rpc[r] = "stop_wait"
    /\ cam_lock = 0
    /\ cam_lock' = r
    /\ rpc' = [rpc EXCEPT ![r] = "stop_release"]
    /\ resp' = None
    /\ UNCHANGED <<cap, running, cam_index, opened, released, ridx, worker_vars,
                   shared_vars, model_vars, smoothing_vars, stream_vars, call_vars>>

\* Lines 435-436.
StopEnter(r) ==
    /\ rpc[r] = "stop_wait"
    /\ cam_lock = 0
    /\ cam_lock' = r
    /\ running' = FALSE
    /\ rpc' = [rpc EXCEPT ![r] = "stop_release"]
    /\ resp' = None
    /\ UNCHANGED <<cap, cam_index, opened, released, ridx, worker_vars,
                   shared_vars, model_vars, smoothing_vars, stream_vars, call_vars>>

\* Line 443.
StoppedResponse == Some(Response("stop", 0, "stopped", 200, 0))

\* Lines 437-441 with a device held: release() is called on it.
StopRelease(r) ==
    /\ rpc[r] = "stop_release"
    /\ ~IsNone(cap)
    /\ released' = released \cup {Val(cap)}
    /\ rpc' = [rpc EXCEPT ![r] = "stop_null"]
    /\ resp' = None
    /\ UNCHANGED <<cap, running, cam_index, cam_lock, opened, ridx, worker_vars,
                   shared_vars, model_vars, smoothing_vars, stream_vars, call_vars>>

\* Mutant of StopNothing: release() is called without the None test, raises,
\* and the framework answers 500.
StopNothing_Raises(r) ==
    /\ rpc[r] = "stop_release"
    /\ IsNone(cap)
    /\ cam_lock' = 0
    /\ resp' = Some(Response("stop", 0, "error", 500, 0))
    /\ Finished(r)
    /\ UNCHANGED <<cap, running, cam_index, opened, released, worker_vars,
                   shared_vars, model_vars, smoothing_vars, stream_vars, call_vars>>

\* Lines 437, 443 with no device held: nothing to release.
StopNothing(r) ==
    /\ rpc[r] = "stop_release"
    /\ IsNone(cap)
    /\ cam_lock' = 0
    /\ resp' = StoppedResponse
    /\ Finished(r)
    /\ UNCHANGED <<cap, running, cam_index, opened, released, worker_vars,
                   shared_vars, model_vars, smoothing_vars, stream_vars, call_vars>>

\* Lines 442-443.
StopNull(r) ==
    /\ rpc[r] = "stop_null"
    /\ cap' = None
    /\ cam_lock' = 0
    /\ resp' = StoppedResponse
    /\ Finished(r)
    /\ UNCHANGED <<running, cam_index, opened, released, worker_vars,
                   shared_vars, model_vars, smoothing_vars, stream_vars, call_vars>>

\* ----------------------------------------------------------- capture worker

InLoop == {"while", "capcheck", "read", "retry", "process"}

\* Line 388: the loop test, reached at thread start and after every
\* iteration's sleep.
W_While(w) ==
    /\ wpc[w] = "while"
    /\ wpc' = [wpc EXCEPT ![w] = IF running THEN "capcheck" ELSE "done"]
    /\ resp' = None
    /\ UNCHANGED <<session_vars, request_vars, wframe, frame_seq,
                   shared_vars, model_vars, smoothing_vars, stream_vars, call_vars>>

\* Lines 389-391.
W_CapCheck(w) ==
    /\ wpc[w] = "capcheck"
    /\ wpc' = [wpc EXCEPT ![w] = IF IsNone(cap) THEN "while" ELSE "read"]
    /\ resp' = None
    /\ UNCHANGED <<session_vars, request_vars, wframe, frame_seq,
                   shared_vars, model_vars, smoothing_vars, stream_vars, call_vars>>

\* Line 392 when the global is None by now: the attribute lookup raises and
\* the thread ends.
W_ReadNone(w) ==
    /\ wpc[w] = "read"
    /\ IsNone(cap)
    /\ wpc' = [wpc EXCEPT ![w] = "crashed"]
    /\ resp' = None
    /\ UNCHANGED <<session_vars, request_vars, wframe, frame_seq,
                   shared_vars, model_vars, smoothing_vars, stream_vars, call_vars>>

\* Mutant of W_ReadFail: a failed read ends the loop.
W_ReadFail_Breaks(w) ==
    /\ wpc[w] = "read"
    /\ ~IsNone(cap)
    /\ wpc' = [wpc EXCEPT ![w] = "done"]
    /\ resp' = None
    /\ UNCHANGED <<session_vars, request_vars, wframe, frame_seq,
                   shared_vars, model_vars, smoothing_vars, stream_vars, call_vars>>

\* Lines 392-394: the read fails and the worker is in its sleep of 10 ms.
W_ReadFailSleep(w) ==
    /\ wpc[w] = "read"
    /\ ~IsNone(cap)
    /\ wpc' = [wpc EXCEPT ![w] = "retry"]
    /\ resp' = None
    /\ UNCHANGED <<session_vars, request_vars, wframe, frame_seq,
                   shared_vars, model_vars, smoothing_vars, stream_vars, call_vars>>

\* Line 395: the sleep is over, the worker is back at the loop test.
W_Continue(w) ==
    /\ wpc[w] = "retry"
    /\ wpc' = [wpc EXCEPT ![w] = "while"]
    /\ resp' = None
    /\ UNCHANGED <<session_vars, request_vars, wframe, frame_seq,
                   shared_vars, model_vars, smoothing_vars, stream_vars, call_vars>>

\* Lines 392-395: the read fails (always, on a released device), the sleep
\* included.
W_ReadFail(w) ==
    /\ wpc[w] = "read"
    /\ ~IsNone(cap)
    /\ wpc' = [wpc EXCEPT ![w] = "while"]
    /\ resp' = None
    /\ UNCHANGED <<session_vars, request_vars, wframe, frame_seq,
                   shared_vars, model_vars, smoothing_vars, stream_vars, call_vars>>

\* Lines 398-401.
Resized(width) == IF width > MAX_WIDTH THEN MAX_WIDTH ELSE width

\* Lines 392-401: a frame is read, mirrored and downscaled.
W_ReadOk(w, frames, limit) ==
    /\ wpc[w] = "read"
    /\ ~IsNone(cap)
    /\ Val(cap) \notin released
    /\ \E k \in frames :
         /\ k.faces = 0 \/ Len(hist["eyebrow"]) < limit
         /\ wframe' = [wframe EXCEPT ![w] = Some([k EXCEPT !.width = Resized(k.width)])]
    /\ wpc' = [wpc EXCEPT ![w] = "process"]
    /\ resp' = None
    /\ UNCHANGED <<session_vars, request_vars, frame_seq, shared_vars, model_vars,
                   smoothing_vars, stream_vars, call_vars>>

\* draw_overlays: what the annotated copy shows, given the detection cache
\* and the Summary at the time.  overlay is the cached detection drawn
\* (None: the Haar fallback rectangle).
Annotated(f, cache, summary) ==
    [width |-> f.width, overlay |-> cache, label |-> summary.label,
     pct |-> (Max(0, Min(SCALE, summary.level)) * 100) \div SCALE]

\* Lines 403-410: the rest of the iteration, then its sleep.  The Summary is
\* published first, the overlay is drawn from the cache and the Summary as
\* they then are, and the annotated copy is published under frame_lock.
W_Process(w) ==
    /\ wpc[w] = "process"
    /\ \E load \in LoadOutcomes :
         /\ latest_summary' = StressSummary(Val(wframe[w]), load)
         /\ compute_stress_from_frame(Val(wframe[w]), load)
    /\ latest_frame' = Some(Annotated(Val(wframe[w]), last_face', latest_summary'))
    /\ wframe' = [wframe EXCEPT ![w] = None]
    /\ wpc' = [wpc EXCEPT ![w] = "while"]
    /\ resp' = None
    /\ UNCHANGED <<session_vars, request_vars, frame_seq, stream_vars, call_vars>>

\* ------------------------------------------------------------------ streams

\* json.dumps of a Summary: its three fields in key order.
JsonDumps(s) == <<"level", s.level, "label", s.label, "faces", s.faces>>

LastTwo(q) == IF Len(q) > 2 THEN SubSeq(q, Len(q) - 1, Len(q)) ELSE q

\* Mutant of SseChanged: every poll yields.
SseChanged_Always(s, last) == TRUE

\* Line 458.
SseChanged(s, last) == Some(s) # last

\* Lines 456-460: one poll of the SSE generator.
SsePoll ==
    /\ IF SseChanged(latest_summary, sse_last)
       THEN /\ sse_out' = LastTwo(Append(sse_out, JsonDumps(latest_summary)))
            /\ sse_last' = Some(latest_summary)
       ELSE UNCHANGED <<sse_out, sse_last>>
    /\ resp' = None
    /\ UNCHANGED <<session_vars, request_vars, worker_vars, shared_vars, model_vars,
                   smoothing_vars, video_out, call_vars>>

\* cv2.imencode + tobytes: the byte count of the JPEG, none when encoding fails.
EncodedLen(frame, ok) == IF ok THEN frame.width ELSE 0

\* Mutant of VideoYields: the result of imencode is not tested.
VideoYields_Unchecked(frame, ok) == ~IsNone(frame)

\* Lines 471, 475: whether the generator yields a part at this poll.
VideoYields(frame, ok) == ~IsNone(frame) /\ ok

\* Lines 469-481: one poll of the video generator.
VideoPoll ==
    /\ \E ok \in BOOLEAN :
         IF VideoYields(latest_frame, ok)
         THEN video_out' = Some([len |-> IF IsNone(latest_frame) THEN 0
                                         ELSE EncodedLen(Val(latest_frame), ok)])
         ELSE UNCHANGED video_out
    /\ resp' = None
    /\ UNCHANGED <<session_vars, request_vars, worker_vars, shared_vars, model_vars,
                   smoothing_vars, sse_last, sse_out, call_vars>>

\* ------------------------------------------------------------ specifications

InitExceptHist ==
    /\ cap = None
    /\ running = FALSE
    /\ cam_index = 0
    /\ cam_lock = 0
    /\ opened = 0
    /\ released = {}
    /\ rpc = [r \in Requests |-> "idle"]
    /\ ridx = [r \in Requests |-> 0]
    /\ resp = None
    /\ wpc = [w \in Sessions |-> "unborn"]
    /\ wframe = [w \in Sessions |-> None]
    /\ frame_seq = 0
    /\ latest_summary = ZeroSummary(0)
    /\ latest_frame = None
    /\ dlib_ready \in BOOLEAN
    /\ detector = FALSE
    /\ ema_level = None
    /\ frame_count = 0
    /\ last_emotion = "unknown"
    /\ last_face = None
    /\ sse_last = None
    /\ sse_out = <<>>
    /\ video_out = None
    /\ norm_ret = None
    /\ loading = {}

\* The state after the module is imported.
Init ==
    /\ InitExceptHist
    /\ hist = [k \in Features |-> <<>>]

\* The request threads in R running the two handlers, at most `limit` Starts
\* finding a device that opens.
Controller(R, limit) ==
    \/ \E r \in R : BeginStart(r)
    \/ \E r \in R : StartBadIndex(r)
    \/ \E r \in R : StartAlreadyRunning(r)
    \/ \E r \in R : StartOpenFail(r)
    \/ \E r \in R : StartOpenOk(r, limit)
    \/ \E r \in R : StartAssign(r)
    \/ \E r \in R : StartRun(r)
    \/ \E r \in R : StartReturn(r)
    \/ \E r \in R : BeginStop(r)
    \/ \E r \in R : StopEnter(r)
    \/ \E r \in R : StopRelease(r)
    \/ \E r \in R : StopNothing(r)
    \/ \E r \in R : StopNull(r)

\* The worker threads, the camera delivering frames drawn
\* from `frames`, a face only while the histories hold fewer than `limit`
\* samples.
Workers(frames, limit) ==
    \/ \E w \in Sessions : W_While(w)
    \/ \E w \in Sessions : W_CapCheck(w)
    \/ \E w \in Sessions : W_ReadNone(w)
    \/ \E w \in Sessions : W_ReadFail(w)
    \/ \E w \in Sessions : W_ReadOk(w, frames, limit)
    \/ \E w \in Sessions : W_Process(w)

\* Two concurrent request threads and the workers they spawn.
Next ==
    \/ Controller(Requests, MaxSessions)
    \/ Workers(CamFrames, MaxFaceFrames)

Spec == Init /\ [][Next]_vars

\* The estimator alone, fed one frame after another by a single caller whose
\* local frame is wframe[1].
EstFeed ==
    /\ frame_seq < MaxEstFrames
    /\ \E k \in EstFrames, load \in LoadOutcomes :
         LET f == [k EXCEPT !.seq = frame_seq + 1, !.width = Resized(k.width)]
         IN /\ wframe' = [wframe EXCEPT ![1] = Some(f)]
            /\ latest_summary' = StressSummary(f, load)
            /\ compute_stress_from_frame(f, load)
    /\ frame_seq' = frame_seq + 1
    /\ resp' = None
    /\ UNCHANGED <<session_vars, request_vars, wpc, latest_frame, stream_vars, call_vars>>

SpecEst == Init /\ [][EstFeed]_vars

\* Lines 392-410 run frame after frame by one worker whose local frame is
\* wframe[1], the frames numbered: the estimate, then the overlay drawn from
\* the detection cache and the Summary as they then are.
LoopFeed ==
    /\ frame_seq < MaxEstFrames
    /\ \E k \in EstFrames, load \in LoadOutcomes :
         LET f == [k EXCEPT !.seq = frame_seq + 1, !.width = Resized(k.width)]
         IN /\ wframe' = [wframe EXCEPT ![1] = Some(f)]
            /\ latest_summary' = StressSummary(f, load)
            /\ compute_stress_from_frame(f, load)
            /\ latest_frame' = Some(Annotated(f, last_face', latest_summary'))
    /\ frame_seq' = frame_seq + 1
    /\ resp' = None
    /\ UNCHANGED <<session_vars, request_vars, wpc, stream_vars, call_vars>>

SpecOverlay == Init /\ [][LoopFeed]_vars

\* One request thread starting and stopping sessions one after another, and
\* the workers it spawns.
NextRestart ==
    \/ Controller({1}, MaxRestartSessions)
    \/ Workers(RestartFrames, MaxRestartFaces)

SpecRestart == Init /\ [][NextRestart]_vars

\* One request thread and the workers it spawns, with the two places where
\* a thread waits outside any lock taken in two steps, so that the other
\* threads run meanwhile: the model load of the Start response (the worker's
\* estimates call _ensure_models_loaded too) and the worker's sleep after a
\* failed read.
NextLoad ==
    \/ Controller({1}, MaxLoadSessions)
    \/ Workers(CamFrames, MaxLoadFaces)
    \/ StartReturnLoad(1)
    \/ StartReturnLoaded(1)
    \/ \E w \in Sessions : W_ReadFailSleep(w)
    \/ \E w \in Sessions : W_Continue(w)

SpecLoad == Init /\ [][NextLoad]_vars

\* Raw values the normalizer is called with.
NormValues == {400, 700}

\* Histories the normalizer is entered with: h samples, all equal or all
\* different, h around the 5 of line 153 and the 300 of line 149.
NormLengths ==
    {0, MIN_SAMPLES - 2, _HISTORY_MAX_PER_FEATURE - 1, _HISTORY_MAX_PER_FEATURE}
Flat(n) == [i \in 1..n |-> 400]
Ramp(n) == [i \in 1..n |-> i]
NormHistories ==
    {[k \in Features |-> Flat(n)] : n \in NormLengths}
    \cup {[k \in Features |-> Ramp(n)] : n \in NormLengths}

InitNorm ==
    /\ InitExceptHist
    /\ hist \in NormHistories

\* The normalizer alone, called for one feature key at a time.
NormFeed ==
    /\ frame_seq < MaxNormCalls
    /\ \E value \in NormValues, feature_key \in Features :
         normalize_points(value, feature_key)
    /\ frame_seq' = frame_seq + 1
    /\ resp' = None
    /\ UNCHANGED <<session_vars, request_vars, wpc, wframe, shared_vars, model_vars,
                   ema_level, frame_count, last_emotion, last_face, stream_vars,
                   loading>>

SpecNorm == InitNorm /\ [][NormFeed]_vars

\* One request thread, the workers it spawns, and one client of each stream.
\* The streams only read the published values, so the other specifications
\* lose no behaviour of the rest of the state by leaving them out.
NextStream ==
    \/ Controller({1}, MaxStreamSessions)
    \/ Workers(StreamFrames, MaxStreamFaces)
    \/ SsePoll
    \/ VideoPoll

SpecStream == Init /\ [][NextStream]_vars

\* ------------------------------------------------------------------ claims

Active == {w \in Sessions : wpc[w] \in InLoop}

\* C1: under every interleaving of Start and Stop requests with the capture
\* loop, at most one worker thread is executing the capture loop at any time.
C1_AtMostOneWorker == Cardinality(Active) <= 1

\* C2: a Start that finds the session active returns already_running with the
\* current device index, whatever index it asked for, opens no device, spawns
\* no worker and leaves cap, running and cam_index as they were.
C2_StartWhileRunning ==
    [][\A r \in Requests :
         (rpc[r] = "start_wait" /\ running /\ rpc'[r] # "start_wait")
         => /\ rpc'[r] = "idle"
            /\ resp' = Some(Response("start", ridx[r], "already_running", 200, cam_index))
            /\ UNCHANGED <<cap, running, cam_index, opened, released, wpc>>]_vars

\* C2 witness: a Start asking for another index than the session's was
\* answered already_running, and the session is still the one it was.
C2_Witness ==
    /\ ~IsNone(resp)
    /\ Val(resp).status = "already_running"
    /\ Val(resp).arg # Val(resp).index
    /\ Val(resp).index = cam_index
    /\ running
    /\ ~IsNone(cap)

\* C3: a Stop on an inactive session (running false, no device held) changes
\* nothing of the session at any of its steps and returns stopped with 200;
\* and every Stop that returns leaves the session inactive, so a Stop after a
\* Stop finds, and leaves, the state the first one left.
C3_StopIdempotent ==
    /\ []((~IsNone(resp) /\ Val(resp).op = "stop")
          => (~running /\ IsNone(cap) /\ Val(resp).status = "stopped"
              /\ Val(resp).code = 200))
    /\ [][\A r \in Requests :
            (rpc[r] \in {"stop_wait", "stop_release"} /\ rpc'[r] # rpc[r]
             /\ ~running /\ IsNone(cap))
            => /\ UNCHANGED <<cap, running, cam_index, opened, released, wpc>>
               /\ rpc'[r] \in {"stop_release", "idle"}
               /\ rpc'[r] = "idle" => resp' = Some(Response("stop", 0, "stopped", 200, 0))]_vars

\* C3 witness: a Stop has returned on a session that was never started.
C3_Witness ==
    /\ ~IsNone(resp)
    /\ Val(resp).op = "stop"
    /\ opened = 0

\* C4: a Start on an inactive session whose device does not open returns the
\* error with 400 and leaves running false, cap and cam_index as they were and
\* no worker spawned; and no response of a Stop ever carries an error code.
C4_FailedStart ==
    /\ []((~IsNone(resp) /\ Val(resp).code # 200) => Val(resp).op = "start")
    /\ [][\A r \in Requests :
            (rpc[r] = "start_wait" /\ ~running /\ rpc'[r] = "idle")
            => /\ resp' = Some(Response("start", ridx[r], "error", 400, ridx[r]))
               /\ ~running'
               /\ UNCHANGED <<cap, cam_index, opened, released, wpc>>]_vars

\* C4 witness: a Start for index 0 failed after an earlier session on index 1,
\* and cam_index is still 1.
C4_Witness ==
    /\ ~IsNone(resp)
    /\ Val(resp).code = 400
    /\ Val(resp).arg = 0
    /\ cam_index = 1
    /\ ~running
    /\ IsNone(cap)

\* C5: once Stop has released the device a worker was started on, that worker
\* finishes at most the iteration it is in: at its next loop test it
\* terminates, whatever Start and Stop requests have followed.
C5_StoppedWorkerExits ==
    [][\A w \in Sessions :
         (w \in released /\ wpc[w] = "while" /\ wpc'[w] # "while")
         => wpc'[w] = "done"]_vars

\* C6: the Summary stream never yields the same payload twice in a row.
C6_NoRepeatedPayload == Len(sse_out) = 2 => sse_out[1] # sse_out[2]

\* C6 witness: the stream has yielded twice and the Summary has not changed
\* since its last poll.
C6_Witness ==
    /\ Len(sse_out) = 2
    /\ sse_last = Some(latest_summary)

\* C7: every part the video stream yields carries at least one byte, and the
\* stream yields nothing as long as no frame has been published.
C7_NoEmptyPart ==
    /\ IsNone(latest_frame) => IsNone(video_out)
    /\ ~IsNone(video_out) => Val(video_out).len > 0

\* C7 witness: the video stream has yielded a part.
C7_Witness == ~IsNone(video_out)

\* C8: in every Summary the estimator produces, the label is High iff
\* level >= 0.75, Moderate iff 0.35 <= level < 0.75, and Low otherwise.
C8_LabelMatchesLevel ==
    LET level == latest_summary.level
        label == latest_summary.label
    IN /\ label = "High" <=> 100 * level >= 75 * SCALE
       /\ label = "Moderate" <=> (100 * level >= 35 * SCALE /\ 100 * level < 75 * SCALE)
       /\ label = "Low" <=> 100 * level < 35 * SCALE

\* C8 witness: a Summary from the landmark path whose level is exactly 0.35.
C8_Witness ==
    /\ 100 * latest_summary.level = 35 * SCALE
    /\ latest_summary.label = "Moderate"
    /\ ema_level = Some(latest_summary.level)

\* C9: the published Summary always has a level in [0, 1] and a face count
\* that is not negative.
C9_LevelInRange ==
    /\ latest_summary.level >= 0
    /\ latest_summary.level <= SCALE
    /\ latest_summary.faces >= 0

\* C9 witness: a Summary of the landmark path with a positive level is still
\* the published one after the session was stopped and started again.
C9_Witness ==
    /\ latest_summary.level > 0
    /\ ema_level = Some(latest_summary.level)
    /\ opened = 2
    /\ running

\* The detections of the frame the estimator has just been fed, by the
\* detector the step ran.
FedFaces == IF dlib_ready' THEN Val(wframe'[1]).faces ELSE Val(wframe'[1]).haar_faces

\* C10: a frame with zero detected faces yields exactly the Summary
\* {level 0, label Low, faces 0}, and leaves the smoothed level, the feature
\* histories, the emotion gate and the detection cache unchanged.
C10_ZeroFaceFrame ==
    [][(frame_seq' = frame_seq + 1 /\ FedFaces = 0)
       => /\ latest_summary' = [level |-> 0, label |-> "Low", faces |-> 0]
          /\ UNCHANGED <<ema_level, hist, frame_count, last_emotion, last_face>>]_vars

\* C10 witness: the landmark path has just returned the zero Summary for a
\* frame without a face while the smoothed level is seeded and the cache set.
C10_Witness ==
    /\ ~IsNone(wframe[1])
    /\ Val(wframe[1]).faces = 0
    /\ dlib_ready /\ detector
    /\ latest_summary = [level |-> 0, label |-> "Low", faces |-> 0]
    /\ ~IsNone(ema_level)
    /\ Val(ema_level) > 0
    /\ ~IsNone(last_face)

\* C11: each feature's history never holds more than 300 entries; a call of
\* the normalizer leaves in the feature's history the last min(n, 300) of the
\* old entries followed by the new value, in insertion order, and leaves the
\* history of every other feature key as it was.
C11_BoundedFifoHistory ==
    /\ [](\A k \in Features : Len(hist[k]) <= 300)
    /\ [][frame_seq' # frame_seq =>
            \A k \in Features :
              IF Val(norm_ret').key = k
              THEN LET a == Append(hist[k], Val(norm_ret').value)
                       n == IF Len(a) < 300 THEN Len(a) ELSE 300
                   IN hist'[k] = [i \in 1..n |-> a[Len(a) - n + i]]
              ELSE hist'[k] = hist[k]]_vars

\* C11 witness: a full history of distinct values has lost its two oldest
\* entries to two later calls, and the last call's value is its newest entry.
C11_Witness ==
    /\ ~IsNone(norm_ret)
    /\ Len(hist[Val(norm_ret).key]) = 300
    /\ hist[Val(norm_ret).key][1] = 3
    /\ hist[Val(norm_ret).key][300] = Val(norm_ret).value

\* C12: a call of the normalizer whose history, counted with the new value,
\* has fewer than 5 samples or only equal samples returns (0.5,
\* "initializing"), and the new value is the last entry of the history.
C12_Initializing ==
    ~IsNone(norm_ret) =>
      LET c == Val(norm_ret)
          h == hist[c.key]
      IN /\ Len(h) > 0
         /\ h[Len(h)] = c.value
         /\ (Len(h) < 5 \/ \A i \in 1..Len(h) : h[i] = h[1])
            => (2 * c.ret.level = SCALE /\ c.ret.label = "initializing")

\* C12 witness: a call returned "initializing" on a full history of equal
\* values.
C12_Witness ==
    /\ ~IsNone(norm_ret)
    /\ Val(norm_ret).ret.label = "initializing"
    /\ Len(hist[Val(norm_ret).key]) = 300

\* The frame the estimator has just been fed went through the landmark path
\* to its end (models loaded, a face, both eyebrows).
FedAccurate ==
    /\ dlib_ready'
    /\ Val(wframe'[1]).faces > 0
    /\ Val(wframe'[1]).eb_ok

\* C13: the level that goes into the smoothing is the fused level raised to
\* exactly 0.75 when the gate's label is scared or sad and the fused level is
\* below 0.75, and the fused level itself in every other case (a fused level
\* of 0.75 or more, or any other label, unknown included).
C13_OverrideOnlyRaises ==
    [][(frame_seq' = frame_seq + 1 /\ FedAccurate) =>
         LET level == FusedLevel(Val(wframe'[1]))
             adjusted == IF last_emotion' \in {"scared", "sad"} /\ 100 * level < 75 * SCALE
                         THEN (75 * SCALE) \div 100
                         ELSE level
         IN /\ adjusted >= level
            /\ ema_level' = Some(Smooth(ema_level, adjusted))]_vars

\* C13 witness: the fifth frame, every metric at the top of its window (fused
\* level tanh(1) = 0.761), was classified sad; the level went into the
\* smoothing as it was, 0.3 * 0.761 + 0.7 * 0.5.
C13_Witness ==
    /\ frame_seq = 5
    /\ last_emotion = "sad"
    /\ Val(wframe[1]).emotion = "sad"
    /\ Len(hist["eyebrow"]) = 5
    /\ ema_level = Some(578)

\* C14: the first estimate of the landmark path with a face sets the smoothed
\* level to the raw level, every later one to 0.3 * raw + 0.7 * previous
\* (0.58 for previous 0.4 and raw 1.0), and no other step of the program
\* changes it: not a frame without a face, not a Stop, not a Start.
C14_EmaSeededThenBlended ==
    /\ [](100 * Smooth(Some((4 * SCALE) \div 10), SCALE) = 58 * SCALE)
    /\ [][IF \E w \in Sessions :
               /\ wpc[w] = "process" /\ wpc'[w] = "while"
               /\ dlib_ready' /\ Val(wframe[w]).faces > 0 /\ Val(wframe[w]).eb_ok
          THEN \E w \in Sessions :
                 /\ wpc[w] = "process" /\ wpc'[w] = "while"
                 /\ LET raw == EmotionAdjust(FusedLevel(Val(wframe[w])), last_emotion')
                    IN ema_level' = Some(IF IsNone(ema_level) THEN raw
                                         ELSE (3 * raw + 7 * Val(ema_level)) \div 10)
          ELSE ema_level' = ema_level]_vars

\* C14 witness: the level seeded at 0.5 was blended with a raw 0.75, and the
\* worker of a second session has since published a frame without a face.
C14_Witness ==
    /\ opened = 2
    /\ 1 \in released
    /\ wpc[2] \in InLoop
    /\ ema_level = Some(575)
    /\ latest_summary = [level |-> 0, label |-> "Low", faces |-> 0]

\* C15: the call counter advances on exactly the frames that reach the gate
\* with a crop; the sticky label keeps its value on every frame on which the
\* counter mod 5 is not 0 and the label is not "unknown", on every frame with
\* an empty crop and on every frame the classifier fails on; and on those
\* frames the override is decided by the kept label.
C15_EmotionGate ==
    [][frame_seq' = frame_seq + 1 =>
         LET f == Val(wframe'[1])
             counted == FedAccurate /\ ~f.roi_empty
             due == counted /\ (frame_count' % 5 = 0 \/ last_emotion = "unknown")
             level == FusedLevel(f)
         IN /\ frame_count' = IF counted THEN (frame_count + 1) % 1000000 ELSE frame_count
            /\ (~due \/ f.emotion = "error") =>
                 /\ last_emotion' = last_emotion
                 /\ FedAccurate =>
                      ema_level' = Some(Smooth(ema_level,
                          IF last_emotion \in {"scared", "sad"} /\ level < OVERRIDE_LEVEL
                          THEN OVERRIDE_LEVEL ELSE level))]_vars

\* C15 witness: a frame the classifier would have called neutral went through
\* the gate between two classifier calls, and the sticky label is still sad.
C15_Witness ==
    /\ ~IsNone(wframe[1])
    /\ dlib_ready
    /\ Val(wframe[1]).faces > 0
    /\ Val(wframe[1]).eb_ok
    /\ ~Val(wframe[1]).roi_empty
    /\ Val(wframe[1]).emotion = "neutral"
    /\ last_emotion = "sad"
    /\ frame_count % 5 # 0

\* C16: once the models are unavailable (the load failed, or the libraries
\* were missing at import) they stay unavailable, no thread begins a load,
\* and every estimate returns the heuristic Summary and leaves the state of
\* the landmark path alone; and once the models are loaded they stay loaded
\* and no load is carried out again.
C16_OneWayDowngrade ==
    [][/\ ~dlib_ready => (~dlib_ready' /\ loading' \subseteq loading)
       /\ \A w \in Sessions :
            (~dlib_ready /\ wpc[w] = "process" /\ wpc'[w] = "while")
            => /\ latest_summary' = HeuristicSummary(Val(wframe[w]))
               /\ UNCHANGED smoothing_vars
       /\ detector => /\ detector'
                      /\ ~\E r \in loading : r \notin loading' /\ dlib_ready']_vars

\* C17: a read that fails takes the worker to its sleep and back to the loop
\* test, with no Summary and no Frame published and the session (handle,
\* running flag, device index) left as it was; and a worker at the loop test
\* of an active session goes on to another iteration.
C17_FailedReadRetries ==
    [][\A w \in Sessions :
         /\ (wpc[w] = "read" /\ ~IsNone(cap) /\ wpc'[w] \notin {"read", "process"})
            => /\ wpc'[w] \in {"retry", "while"}
               /\ UNCHANGED <<latest_summary, latest_frame, cap, running, cam_index,
                              released>>
         /\ (wpc[w] = "retry" /\ wpc'[w] # "retry")
            => /\ wpc'[w] = "while"
               /\ UNCHANGED <<latest_summary, latest_frame, cap, running, cam_index,
                              released>>
         /\ (wpc[w] \in {"while", "retry"} /\ running /\ running')
            => wpc'[w] \in {"while", "retry", "capcheck"}]_vars

\* C17 witness: a read on the open device of an active session has failed
\* after a frame was published; the worker is in its sleep, the published
\* frame is still there and the session is still active.
C17_Witness ==
    \E w \in Sessions :
      /\ wpc[w] = "retry"
      /\ running
      /\ cap = Some(w)
      /\ w \notin released
      /\ ~IsNone(latest_frame)

\* C18: the detection the overlay of a published frame draws was computed
\* from that frame (the frame of the current Summary) or from the frame just
\* before it.
C18_CacheLagsAtMostOne ==
    (~IsNone(latest_frame) /\ ~IsNone(Val(latest_frame).overlay))
    => frame_seq - Val(Val(latest_frame).overlay) <= 1

\* C19: a worker about to call read has a handle that is not None and that
\* Stop has not released.
C19_ReadOnOpenHandle ==
    \A w \in Sessions :
      wpc[w] = "read" => (~IsNone(cap) /\ Val(cap) \notin released)

\* C20: whenever cam_lock is free, running is true exactly when cap holds a
\* handle that is not None and not released.
C20_FlagsConsistent ==
    cam_lock = 0 => (running <=> (~IsNone(cap) /\ Val(cap) \notin released))

\* C20 witness: both request threads are idle and a second session is active
\* on its own open handle, the first one's handle released.
C20_Witness ==
    /\ cam_lock = 0
    /\ \A r \in Requests : rpc[r] = "idle"
    /\ running
    /\ cap = Some(2)
    /\ released = {1}

====
